---- MODULE Spec2Model ----
(***************************************************************************)
(* A model of flashlight's module container subsystem                      *)
(* (flashlight/fl/nn/modules/Container.cpp): ModuleWrapper, the ownership  *)
(* cell around a Module, and Container, which aggregates its children's    *)
(* parameters into one flat indexed list.                                  *)
(*                                                                         *)
(* Modules live in a heap indexed by ModId; a pointer is a ModId or Null.  *)
(* A destroyed module keeps its cell (kind "dead"), an id is never reused. *)
(* A Variable is a handle (a Var id) to shared autograd state; its         *)
(* gradient flag lives in the store grad.  All indices and positions are   *)
(* 0-based as in the C++ code.                                             *)
(***************************************************************************)
EXTENDS Integers, Sequences, FiniteSets, TLC

VARIABLES heap, grad, nvars, wraps, handles, last

vars == <<heap, grad, nvars, wraps, handles, last>>

\* ---------------------------------------------------------------- bounds
MaxMods == 3
MaxVars == 3
MaxSlots == 2
MaxCalls == 6
MaxCallsF == 5

Null == 0
ModId == 1..MaxMods
Var == 0..MaxVars
Slot == 1..MaxSlots

\* ------------------------------------------------------------ the store
\* An unallocated heap cell.
FreeCell ==
  [kind |-> "free", train |-> FALSE, params |-> <<>>, modules |-> <<>>,
   childParamIdx |-> <<>>]

\* The element at 0-based index i of sequence s.
At(s, i) == s[i + 1]

\* The world the operations act on, as one record.
World ==
  [heap |-> heap, grad |-> grad, nvars |-> nvars, wraps |-> wraps,
   handles |-> handles]

Commit(w) ==
  /\ heap' = w.heap
  /\ grad' = w.grad
  /\ nvars' = w.nvars
  /\ wraps' = w.wraps
  /\ handles' = w.handles

Allocated(w) == {m \in ModId : w.heap[m].kind # "free"}
Live(w, m) == m \in ModId /\ w.heap[m].kind \in {"leaf", "container"}
NextMod(w) == Cardinality(Allocated(w)) + 1
CanAlloc(w, nm, nv) ==
  /\ Cardinality(Allocated(w)) + nm <= MaxMods
  /\ w.nvars + nv <= MaxVars

\* A wrapper: the active alternative of the variant ptr_ and the pointer it
\* holds.  "absent" marks a slot in which no wrapper object exists.
Wrapper(tag, ptr) == [tag |-> tag, ptr |-> ptr]
Absent == Wrapper("absent", Null)

\* The number of shared owners of module m: shared wrappers held by the
\* user, shared wrappers inside live containers, and the user's handle.
SharedIn(ws, m) ==
  Cardinality({i \in DOMAIN ws : ws[i].tag = "shared" /\ ws[i].ptr = m})

RECURSIVE SumOver(_, _, _, _)
SumOver(w, S, m, acc) ==
  IF S = {} THEN acc
  ELSE LET c == CHOOSE x \in S : TRUE
       IN SumOver(w, S \ {c}, m, acc + SharedIn(w.heap[c].modules, m))

UseCount(w, m) ==
  SharedIn(w.wraps, m)
  + SumOver(w, {c \in ModId : w.heap[c].kind = "container"}, m, 0)
  + (IF m \in w.handles THEN 1 ELSE 0)

\* ------------------------------------------------- Module (collaborator)
\* Destruction of module m: a container's wrappers are destroyed with it,
\* each releasing its child according to its ownership mode.
RECURSIVE Destroy(_, _)
RECURSIVE ReleaseAll(_, _, _)

Release(w, wr) ==
  IF wr.ptr = Null THEN w
  ELSE IF wr.tag = "unique" THEN Destroy(w, wr.ptr)
  ELSE IF UseCount(w, wr.ptr) = 0 THEN Destroy(w, wr.ptr)
  ELSE w

ReleaseAll(w, ws, i) ==
  IF i > Len(ws) THEN w ELSE ReleaseAll(Release(w, ws[i]), ws, i + 1)

Destroy(w, m) ==
  IF ~Live(w, m) THEN w
  ELSE LET kids == w.heap[m].modules
           w1 == [w EXCEPT !.heap[m] = [FreeCell EXCEPT !.kind = "dead"]]
       IN ReleaseAll(w1, kids, 1)

\* A new leaf module with n parameters, each a fresh Variable; a module is
\* constructed in train mode.  The result is the world and the new id.
NewLeaf(w, n) ==
  LET id == NextMod(w)
      cell == [kind |-> "leaf", train |-> TRUE,
               params |-> [i \in 1..n |-> w.nvars + i],
               modules |-> <<>>, childParamIdx |-> <<>>]
  IN [w |-> [w EXCEPT !.heap[id] = cell, !.nvars = w.nvars + n,
                      !.grad = [v \in Var |->
                                  IF v > w.nvars /\ v <= w.nvars + n
                                  THEN TRUE ELSE w.grad[v]]],
      id |-> id]

\* Module::clone of a leaf: a new instance with the same mode and a deep
\* copy of the parameters (fresh Variables carrying the same flags).
Module_clone(w, m) ==
  LET id == NextMod(w)
      src == w.heap[m]
      n == Len(src.params)
      cell == [src EXCEPT !.params = [i \in 1..n |-> w.nvars + i]]
  IN [w |-> [w EXCEPT !.heap[id] = cell, !.nvars = w.nvars + n,
                      !.grad = [v \in Var |->
                                  IF v > w.nvars /\ v <= w.nvars + n
                                  THEN w.grad[src.params[v - w.nvars]]
                                  ELSE w.grad[v]]],
      id |-> id]

\* Variable::setCalcGrad on every Variable of the set vs.
SetCalcGrad(w, vs, b) ==
  [w EXCEPT !.grad = [v \in Var |-> IF v \in vs THEN b ELSE w.grad[v]]]

Range(s) == {s[i] : i \in DOMAIN s}

\* Module::train (mode TRUE) and Module::eval (mode FALSE) of a leaf: the
\* mode flag and the gradient flag of each of its own parameters.
Module_train(w, m, mode) ==
  SetCalcGrad([w EXCEPT !.heap[m].train = mode],
              Range(w.heap[m].params), mode)

\* Module::setParams: the base parameter write, range-checked.
Module_setParams(w, m, var, position) ==
  IF position < 0 \/ position >= Len(w.heap[m].params)
  THEN [w |-> w, exc |-> "out_of_range"]
  ELSE [w |-> [w EXCEPT !.heap[m].params[position + 1] = var],
        exc |-> "none"]

\* ---------------------------------------------------------- ModuleWrapper
\* ModuleWrapper(std::unique_ptr<Module>) and
\* ModuleWrapper(std::shared_ptr<Module>): the pointer is moved in as given.
ModuleWrapper_fromUnique(ptr) == Wrapper("unique", ptr)
ModuleWrapper_fromShared(ptr) == Wrapper("shared", ptr)

\* The default-constructed variant a copy is left with when the source
\* holds neither alternative.
DefaultPtr == Wrapper("unique", Null)

\* ModuleWrapper::get.
ModuleWrapper_get(wr) ==
  IF wr.tag = "unique" THEN wr.ptr
  ELSE IF wr.tag = "shared" THEN wr.ptr
  ELSE Null

\* A faulty operator bool: true whenever an alternative is active.
ModuleWrapper_bool_tagOnly(wr) == wr.tag \in {"unique", "shared"}

\* ModuleWrapper::operator bool.
ModuleWrapper_bool(wr) ==
  IF wr.tag = "valueless" THEN FALSE
  ELSE IF wr.tag = "unique" THEN wr.ptr # Null
  ELSE IF wr.tag = "shared" THEN wr.ptr # Null
  ELSE FALSE

\* A faulty copy: a unique source is aliased instead of cloned.
ModuleWrapper_copy_aliasUnique(w, other) ==
  IF other.tag = "unique"
  THEN IF other.ptr = Null
       THEN [w |-> w, wr |-> DefaultPtr, res |-> "ub"]
       ELSE [w |-> w, wr |-> Wrapper("unique", other.ptr), res |-> "ok"]
  ELSE IF other.tag = "shared"
  THEN [w |-> w, wr |-> Wrapper("shared", other.ptr), res |-> "ok"]
  ELSE [w |-> w, wr |-> DefaultPtr, res |-> "ok"]

\* A faulty copy: a shared source is cloned instead of aliased.
ModuleWrapper_copy_cloneShared(w, other) ==
  IF other.ptr = Null
  THEN [w |-> w, wr |-> DefaultPtr,
        res |-> IF other.tag = "unique" THEN "ub" ELSE "ok"]
  ELSE LET c == Module_clone(w, other.ptr)
       IN [w |-> c.w, wr |-> Wrapper(other.tag, c.id), res |-> "ok"]

\* ModuleWrapper::ModuleWrapper(const ModuleWrapper&).  A unique source is
\* cloned through its pointer, which is dereferenced unchecked: with a null
\* pointer the behaviour is undefined ("ub").  A shared source is aliased.
ModuleWrapper_copy(w, other) ==
  IF other.tag = "unique"
  THEN IF other.ptr = Null
       THEN [w |-> w, wr |-> DefaultPtr, res |-> "ub"]
       ELSE LET c == Module_clone(w, other.ptr)
            IN [w |-> c.w, wr |-> Wrapper("unique", c.id), res |-> "ok"]
  ELSE IF other.tag = "shared"
  THEN [w |-> w, wr |-> Wrapper("shared", other.ptr), res |-> "ok"]
  ELSE [w |-> w, wr |-> DefaultPtr, res |-> "ok"]

\* A faulty reset: a shared module is destroyed whoever else holds it.
ModuleWrapper_reset_destroysShared(w, s) ==
  LET wr == w.wraps[s]
      w1 == [w EXCEPT !.wraps[s] = Wrapper(wr.tag, Null)]
  IN IF wr.ptr = Null THEN w1 ELSE Destroy(w1, wr.ptr)

\* ModuleWrapper::reset on the wrapper in slot s: the held pointer is reset
\* within the active alternative, which stays active.
ModuleWrapper_reset(w, s) ==
  LET wr == w.wraps[s]
      w1 == [w EXCEPT !.wraps[s] = Wrapper(wr.tag, Null)]
  IN IF wr.tag = "unique" THEN Release(w1, wr)
     ELSE IF wr.tag = "shared" THEN Release(w1, wr)
     ELSE w

\* A faulty make_shared: the handle is returned, the wrapper stays unique.
ModuleWrapper_make_shared_noPromote(w, s) ==
  [w |-> w, ret |-> w.wraps[s].ptr]

\* ModuleWrapper::make_shared on the wrapper in slot s: the world and the
\* returned handle.
ModuleWrapper_make_shared(w, s) ==
  LET wr == w.wraps[s]
  IN IF wr.tag = "valueless" THEN [w |-> w, ret |-> Null]
     ELSE IF wr.tag = "unique"
     THEN [w |-> [w EXCEPT !.wraps[s] = Wrapper("shared", wr.ptr)],
           ret |-> wr.ptr]
     ELSE [w |-> w, ret |-> wr.ptr]

\* ------------------------------------------- wrappers held by the user
\* The record of the last operation: its name, the slot it acted on, the
\* slot it read (a copy's source), its outcome, the pointer it returned
\* (for reset: the pointer it released) and the alternative the slot's
\* wrapper held before.
Op(op, slot, src, res, ret, was) ==
  [op |-> op, slot |-> slot, src |-> src, res |-> res, ret |-> ret,
   was |-> was]

\* The parameter counts of the leaf modules the user constructs.
LeafSizes == {0, 1}

\* Wrappers are constructed into the slots in order.
NextSlot(s) == wraps[s] = Absent /\ \A t \in Slot : t < s => wraps[t] # Absent

\* Undefined behaviour ends the run: the process crashed, or went on with
\* a value nothing can be said about.
UBOutcomes == {"crash", "garbage"}
Running == last.res \notin UBOutcomes

InitW ==
  /\ heap = [m \in ModId |-> FreeCell]
  /\ grad = [v \in Var |-> TRUE]
  /\ nvars = 0
  /\ wraps = [s \in Slot |-> Absent]
  /\ handles = {}
  /\ last = Op("init", 0, 0, "ok", Null, "absent")

\* ModuleWrapper w(std::make_unique<M>(...)), or with a null pointer.
ConstructUnique(s) ==
  /\ Running
  /\ NextSlot(s)
  /\ \/ /\ Commit([World EXCEPT !.wraps[s] = ModuleWrapper_fromUnique(Null)])
        /\ last' = Op("construct", s, 0, "ok", Null, "absent")
     \/ \E n \in LeafSizes :
          /\ CanAlloc(World, 1, n)
          /\ LET r == NewLeaf(World, n)
             IN /\ Commit([r.w EXCEPT
                             !.wraps[s] = ModuleWrapper_fromUnique(r.id)])
                /\ last' = Op("construct", s, 0, "ok", r.id, "absent")

\* ModuleWrapper w(std::make_shared<M>(...)), the caller keeping its handle
\* or not; or with a handle the caller already holds; or with a null one.
ConstructShared(s) ==
  /\ Running
  /\ NextSlot(s)
  /\ \/ /\ Commit([World EXCEPT !.wraps[s] = ModuleWrapper_fromShared(Null)])
        /\ last' = Op("construct", s, 0, "ok", Null, "absent")
     \/ \E n \in LeafSizes, keep \in BOOLEAN :
          /\ CanAlloc(World, 1, n)
          /\ LET r == NewLeaf(World, n)
             IN /\ Commit([r.w EXCEPT
                             !.wraps[s] = ModuleWrapper_fromShared(r.id),
                             !.handles = IF keep THEN @ \cup {r.id} ELSE @])
                /\ last' = Op("construct", s, 0, "ok", r.id, "absent")
     \/ \E m \in handles :
          /\ Commit([World EXCEPT !.wraps[s] = ModuleWrapper_fromShared(m)])
          /\ last' = Op("construct", s, 0, "ok", m, "absent")

\* ModuleWrapper t(s): the copy constructor, from slot s into slot t.
CopyWrapper(s, t) ==
  /\ Running
  /\ s # t
  /\ wraps[s] # Absent
  /\ NextSlot(t)
  /\ LET r == ModuleWrapper_copy(World, wraps[s])
     IN IF r.res = "ub"
        THEN \/ /\ UNCHANGED <<heap, grad, nvars, wraps, handles>>
                /\ last' = Op("copy", t, s, "crash", Null, "absent")
             \/ /\ UNCHANGED <<heap, grad, nvars, wraps, handles>>
                /\ last' = Op("copy", t, s, "garbage", Null, "absent")
        ELSE /\ wraps[s].tag = "unique" /\ wraps[s].ptr # Null
                  => CanAlloc(World, 1, Len(heap[wraps[s].ptr].params))
             /\ Commit([r.w EXCEPT !.wraps[t] = r.wr])
             /\ last' = Op("copy", t, s, "ok", r.wr.ptr, "absent")

\* w.reset().
Reset(s) ==
  /\ Running
  /\ wraps[s] # Absent
  /\ Commit(ModuleWrapper_reset(World, s))
  /\ last' = Op("reset", s, 0, "ok", wraps[s].ptr, wraps[s].tag)

\* auto h = w.make_shared(), the caller keeping the handle or dropping it.
MakeShared(s) ==
  /\ Running
  /\ wraps[s] # Absent
  /\ \E keep \in BOOLEAN :
       LET r == ModuleWrapper_make_shared(World, s)
       IN /\ Commit([r.w EXCEPT
                       !.handles = IF keep /\ r.ret # Null
                                   THEN @ \cup {r.ret} ELSE @])
          /\ last' = Op("make_shared", s, 0, "ok", r.ret, wraps[s].tag)

\* The caller drops the shared handle it holds on module m.
DropHandle(m) ==
  /\ Running
  /\ m \in handles
  /\ LET w1 == [World EXCEPT !.handles = @ \ {m}]
     IN Commit(IF UseCount(w1, m) = 0 THEN Destroy(w1, m) ELSE w1)
  /\ last' = Op("drop", 0, 0, "ok", m, "absent")

\* w->train() and w->eval(), guarded by the caller with if (w).
WrapperTrain(s, mode) ==
  /\ Running
  /\ wraps[s] # Absent
  /\ ModuleWrapper_bool(wraps[s])
  /\ Commit(Module_train(World, ModuleWrapper_get(wraps[s]), mode))
  /\ last' = Op(IF mode THEN "train" ELSE "eval", s, 0, "ok", Null,
                wraps[s].tag)

NextW ==
  \/ \E s \in Slot : ConstructUnique(s)
  \/ \E s \in Slot : ConstructShared(s)
  \/ \E s, t \in Slot : CopyWrapper(s, t)
  \/ \E s \in Slot : Reset(s)
  \/ \E s \in Slot : MakeShared(s)
  \/ \E m \in ModId : DropHandle(m)
  \/ \E s \in Slot, mode \in BOOLEAN : WrapperTrain(s, mode)

SpecW == InitW /\ [][NextW]_vars

\* ------------------------------------------------------------- Container
\* The modules reachable from m through children, m included.
RECURSIVE Reach(_, _)
Reach(w, m) ==
  {m} \cup UNION {Reach(w, w.heap[m].modules[i].ptr) :
                    i \in DOMAIN w.heap[m].modules}

\* A new empty container, in train mode.
NewContainer(w) ==
  LET id == NextMod(w)
  IN [w |-> [w EXCEPT !.heap[id] =
                        [kind |-> "container", train |-> TRUE,
                         params |-> <<>>, modules |-> <<>>,
                         childParamIdx |-> <<>>]],
      id |-> id]

\* A faulty add: the index entry records the flat position as the local
\* index.
Container_add_flatAsLocal(w, c, wr) ==
  LET me == w.heap[c]
      base == Len(me.params)
      midx == Len(me.modules)
      cp == w.heap[wr.ptr].params
  IN [w EXCEPT
        !.heap[c].modules = Append(me.modules, wr),
        !.heap[c].params = me.params \o cp,
        !.heap[c].childParamIdx =
          [i \in DOMAIN me.childParamIdx \cup (base..(base + Len(cp) - 1)) |->
             IF i >= base THEN <<midx, i>> ELSE me.childParamIdx[i]]]

\* Container::add: the wrapper is appended to modules_, and each of the
\* child's parameters is appended to params_ and entered in childParamIdx_
\* under its flat position.
Container_add(w, c, wr) ==
  LET me == w.heap[c]
      base == Len(me.params)
      midx == Len(me.modules)
      cp == w.heap[wr.ptr].params
  IN [w EXCEPT
        !.heap[c].modules = Append(me.modules, wr),
        !.heap[c].params = me.params \o cp,
        !.heap[c].childParamIdx =
          [i \in DOMAIN me.childParamIdx \cup (base..(base + Len(cp) - 1)) |->
             IF i >= base THEN <<midx, i - base>> ELSE me.childParamIdx[i]]]

\* A parameter the container class adds to params_ itself, outside child
\* registration.
Container_addOwnParam(w, c, var) ==
  [w EXCEPT !.heap[c].params = Append(@, var)]

\* A faulty clear: params_ is left as it was.
Container_clear_keepsParams(w, c) ==
  LET kids == w.heap[c].modules
      w1 == [w EXCEPT !.heap[c].childParamIdx = <<>>,
                      !.heap[c].modules = <<>>]
  IN ReleaseAll(w1, kids, 1)

\* Container::clear.
Container_clear(w, c) ==
  LET kids == w.heap[c].modules
      w1 == [w EXCEPT !.heap[c].childParamIdx = <<>>,
                      !.heap[c].modules = <<>>]
      w2 == ReleaseAll(w1, kids, 1)
  IN [w2 EXCEPT !.heap[c].params = <<>>]

\* Container::module: modules_[id], an unchecked vector access.  Outside
\* the vector the behaviour is undefined.
Container_module(w, c, id) ==
  IF id >= 0 /\ id < Len(w.heap[c].modules)
  THEN [res |-> "ok", wr |-> At(w.heap[c].modules, id)]
  ELSE [res |-> "ub", wr |-> Absent]

\* The flat positions of container c that childParamIdx_ does not cover.
Uncovered(w, c) ==
  {i \in 0..(Len(w.heap[c].params) - 1) : i \notin DOMAIN w.heap[c].childParamIdx}

RECURSIVE ScanOrphans(_, _, _, _, _)

\* The loop of Container::getOrphanedParamsIdxMap from position i with
\* previous module index prevMidx and the pairs (key, position) emplaced
\* so far.  At a position with an index entry the scan advances by the
\* child's present parameter count; when that count is 0 the position never
\* advances and the loop runs forever.  modules_.at(midx) is range-checked.
ScanOrphans(w, c, i, prevMidx, acc) ==
  LET me == w.heap[c]
  IN IF i >= Len(me.params) THEN [res |-> "ok", map |-> acc]
     ELSE IF i \in DOMAIN me.childParamIdx
     THEN LET midx == me.childParamIdx[i][1]
          IN IF midx < 0 \/ midx >= Len(me.modules)
             THEN [res |-> "out_of_range", map |-> {}]
             ELSE LET n == Len(w.heap[At(me.modules, midx).ptr].params)
                  IN IF n = 0 THEN [res |-> "hang", map |-> {}]
                     ELSE ScanOrphans(w, c, i + n, midx, acc)
     ELSE ScanOrphans(w, c, i + 1, prevMidx, acc \cup {<<prevMidx, i>>})

\* Container::getOrphanedParamsIdxMap: the scan from position 0 with the
\* previous module index -1.
Container_getOrphanedParamsIdxMap(w, c) ==
  ScanOrphans(w, c, 0, -1, {})

RECURSIVE CopyAll(_, _, _, _)

\* The copy of a vector of wrappers, element by element from index k, each
\* through the wrapper copy constructor; acc is the copy so far.
CopyAll(w, ws, k, acc) ==
  IF k > Len(ws) THEN [w |-> w, copy |-> acc, res |-> "ok"]
  ELSE LET r == ModuleWrapper_copy(w, ws[k])
       IN IF r.res # "ok" THEN [w |-> r.w, copy |-> acc, res |-> r.res]
          ELSE CopyAll(r.w, ws, k + 1, Append(acc, r.wr))

\* Container::modules: a copy of modules_.
Container_modules(w, c) ==
  CopyAll(w, w.heap[c].modules, 1, <<>>)

\* Container::prettyString and Sequential::prettyString: the child indices
\* of the header line, and for each child its index and the module whose
\* prettyString() the line shows.
Container_prettyString(w, c) ==
  [header |-> [k \in DOMAIN w.heap[c].modules |-> k - 1],
   lines |-> [k \in DOMAIN w.heap[c].modules |->
                <<k - 1, w.heap[c].modules[k].ptr>>]]

RECURSIVE Virtual_train(_, _, _)
RECURSIVE TrainChildren(_, _, _, _)

\* A faulty train/eval: the gradient flag of every flat parameter is set,
\* the covered ones included.
Container_train_allParams(w, c, mode) ==
  LET me == w.heap[c]
      touched == 0..(Len(me.params) - 1)
      w1 == [w EXCEPT !.heap[c].train = mode]
      w2 == SetCalcGrad(w1, {At(me.params, i) : i \in touched}, mode)
  IN [w |-> TrainChildren(w2, me.modules, 1, mode),
      touched |-> touched,
      called |-> [k \in DOMAIN me.modules |-> k - 1]]

\* A faulty train/eval: the children are not called.
Container_train_noChildren(w, c, mode) ==
  LET me == w.heap[c]
      touched == {i \in 0..(Len(me.params) - 1) :
                    i \notin DOMAIN me.childParamIdx}
      w1 == [w EXCEPT !.heap[c].train = mode]
  IN [w |-> SetCalcGrad(w1, {At(me.params, i) : i \in touched}, mode),
      touched |-> touched,
      called |-> <<>>]

\* Container::train (mode TRUE) and Container::eval (mode FALSE): the mode
\* flag, then setCalcGrad on each flat parameter without an index entry,
\* then train()/eval() on each child in order.  The result carries the
\* world, the positions whose flag this call set and the children called.
Container_train(w, c, mode) ==
  LET me == w.heap[c]
      touched == {i \in 0..(Len(me.params) - 1) :
                    i \notin DOMAIN me.childParamIdx}
      w1 == [w EXCEPT !.heap[c].train = mode]
      w2 == SetCalcGrad(w1, {At(me.params, i) : i \in touched}, mode)
  IN [w |-> TrainChildren(w2, me.modules, 1, mode),
      touched |-> touched,
      called |-> [k \in DOMAIN me.modules |-> k - 1]]

\* module->train() / module->eval(): the virtual call.
Virtual_train(w, m, mode) ==
  IF w.heap[m].kind = "container" THEN Container_train(w, m, mode).w
  ELSE Module_train(w, m, mode)

TrainChildren(w, ws, k, mode) ==
  IF k > Len(ws) THEN w
  ELSE TrainChildren(Virtual_train(w, ws[k].ptr, mode), ws, k + 1, mode)

RECURSIVE Virtual_setParams(_, _, _, _)

\* A faulty setParams: a failure of the base write is swallowed.
Container_setParams_swallow(w, c, var, position) ==
  LET b == Module_setParams(w, c, var, position)
  IN IF b.exc # "none" THEN [w |-> w, exc |-> "none"]
     ELSE IF position \in DOMAIN w.heap[c].childParamIdx
     THEN LET e == w.heap[c].childParamIdx[position]
          IN Virtual_setParams(b.w, At(w.heap[c].modules, e[1]).ptr, var, e[2])
     ELSE b

\* A faulty setParams: the write-through to the child is left out.
Container_setParams_flatOnly(w, c, var, position) ==
  Module_setParams(w, c, var, position)

\* A faulty setParams: the child's local index is taken for a flat
\* position too, and the flat list is written at both.
Container_setParams_bothIndices(w, c, var, position) ==
  LET b == Module_setParams(w, c, var, position)
  IN IF b.exc # "none" THEN b
     ELSE IF position \in DOMAIN w.heap[c].childParamIdx
     THEN LET e == w.heap[c].childParamIdx[position]
              b2 == Module_setParams(b.w, c, var, e[2])
          IN Virtual_setParams(b2.w, At(w.heap[c].modules, e[1]).ptr, var, e[2])
     ELSE b

\* Container::setParams: the base write into the flat list (which fails
\* out of range and leaves everything as it was), then, when the position
\* has an index entry, setParams on that child at its local index.  A
\* failure of the child's setParams propagates after the flat write.
Container_setParams(w, c, var, position) ==
  LET b == Module_setParams(w, c, var, position)
  IN IF b.exc # "none" THEN b
     ELSE IF position \in DOMAIN w.heap[c].childParamIdx
     THEN LET e == w.heap[c].childParamIdx[position]
          IN Virtual_setParams(b.w, At(w.heap[c].modules, e[1]).ptr, var, e[2])
     ELSE b

\* module->setParams(var, position): the virtual call.
Virtual_setParams(w, m, var, position) ==
  IF w.heap[m].kind = "container" THEN Container_setParams(w, m, var, position)
  ELSE Module_setParams(w, m, var, position)

\* ------------------------------------------------------------ Sequential
\* The Variables of a forward pass: a Variable is the trace of what
\* computed it, the number of the input it stems from followed by the
\* indices of the children that were applied.
Inputs == {<<>>, <<<<-1>>>>, <<<<-1>>, <<-2>>>>}

\* What a child's forward can do with its input sequence: map every
\* element, yield one value, yield two values, yield none.
Behaviours == {"map", "one", "two", "none"}

\* module->forward(xs) of the child at index k under behaviour b.
Module_forward(k, b, xs) ==
  LET t == Append(IF xs = <<>> THEN <<0>> ELSE xs[1], k)
  IN CASE b = "map" -> [i \in DOMAIN xs |-> Append(xs[i], k)]
       [] b = "one" -> <<t>>
       [] b = "two" -> <<t, Append(t, k)>>
       [] OTHER -> <<>>

RECURSIVE ForwardFrom(_, _, _, _, _)

\* The loop over modules_ from child k with the present output; calls is
\* the sequence of children whose forward was called.
ForwardFrom(n, beh, k, output, calls) ==
  IF k >= n THEN [out |-> output, calls |-> calls]
  ELSE ForwardFrom(n, beh, k + 1, Module_forward(k, beh[k + 1], output),
                   Append(calls, k))

\* A faulty forward: every child is handed the original input.
Sequential_forward_noChain(w, c, beh, input) ==
  LET n == Len(w.heap[c].modules)
  IN [out |-> IF n = 0 THEN input
              ELSE Module_forward(n - 1, beh[n], input),
      calls |-> [k \in 1..n |-> k - 1]]

\* Sequential::forward(const std::vector<Variable>&).
Sequential_forward(w, c, beh, input) ==
  ForwardFrom(Len(w.heap[c].modules), beh, 0, input, <<>>)

\* A faulty single-Variable forward: the first output is returned whatever
\* the size of the final output.
Sequential_forwardOne_truncates(w, c, beh, x) ==
  LET r == ForwardFrom(Len(w.heap[c].modules), beh, 0, <<x>>, <<>>)
  IN IF r.out = <<>>
     THEN [exc |-> "invalid_argument", val |-> <<>>, calls |-> r.calls]
     ELSE [exc |-> "none", val |-> <<r.out[1]>>, calls |-> r.calls]

\* Sequential::forward(const Variable&): the result is the exception
\* thrown, the value returned (a sequence of one, empty when it throws) and
\* the children called.
Sequential_forwardOne(w, c, beh, x) ==
  LET r == ForwardFrom(Len(w.heap[c].modules), beh, 0, <<x>>, <<>>)
  IN IF Len(r.out) # 1
     THEN [exc |-> "invalid_argument", val |-> <<>>, calls |-> r.calls]
     ELSE [exc |-> "none", val |-> <<r.out[1]>>, calls |-> r.calls]

\* Sequential::operator().
Sequential_call(w, c, beh, x) ==
  Sequential_forwardOne(w, c, beh, x)

\* ------------------------------------------------ what a holder observes
\* What a holder of module p observes of it: its mode, and the gradient
\* flag of each of its parameters.
Observe(w, p) ==
  [train |-> w.heap[p].train,
   flags |-> [i \in DOMAIN w.heap[p].params |-> w.grad[w.heap[p].params[i]]]]

\* The wrappers and handles other than slot s that refer to module p.
OtherHolders(w, s, p) ==
  {t \in Slot \ {s} : w.wraps[t].ptr = p} \cup (w.handles \cap {p})

WorldNext ==
  [heap |-> heap', grad |-> grad', nvars |-> nvars', wraps |-> wraps',
   handles |-> handles']

UniqueHolding(wr) == wr.tag = "unique" /\ wr.ptr # Null
SharedHolding(wr) == wr.tag = "shared" /\ wr.ptr # Null
Mutators == {"train", "eval", "reset", "make_shared"}

\* --------------------------------------------- containers held by the user
\* The record of the last container operation: its name, the module it was
\* called on, its index or position argument, the module or Variable it
\* handed over or back, its outcome, the number of calls made so far, and
\* the length of the runs explored.
COp(op, mod, arg, val, res) ==
  [op |-> op, mod |-> mod, arg |-> arg, val |-> val, res |-> res,
   n |-> last.n + 1, max |-> last.max]

\* Before the first call of a run of at most max calls.
NoCall(max) ==
  [op |-> "init", mod |-> Null, arg |-> 0, val |-> 0, res |-> "ok",
   n |-> 0, max |-> max]

\* A further call is within the length of the runs explored; a call that
\* never returns is the last of its run.
Budget == Running /\ last.res # "hang" /\ last.n < last.max

\* The parameter counts of the leaf modules the user constructs.
ChildSizes == {1, 2}

\* The user's own Variable, passed to setParams: Variable 0, which no
\* module created.
UserVar == 0

IsContainer(w, m) == m \in ModId /\ w.heap[m].kind = "container"

\* No module and no Variable has been constructed.
NothingBuilt ==
  /\ heap = [m \in ModId |-> FreeCell]
  /\ grad = [v \in Var |-> TRUE]
  /\ nvars = 0
  /\ wraps = [s \in Slot |-> Absent]
  /\ handles = {}

Init == NothingBuilt /\ last = NoCall(MaxCalls)

\* auto c = std::make_shared<Container>().
CreateContainer ==
  /\ Budget
  /\ CanAlloc(World, 1, 0)
  /\ LET r == NewContainer(World)
     IN /\ Commit([r.w EXCEPT !.handles = @ \cup {r.id}])
        /\ last' = COp("create", r.id, 0, 0, "ok")

\* auto m = std::make_shared<Leaf>(...), a module with n parameters.
CreateLeaf(n) ==
  /\ Budget
  /\ CanAlloc(World, 1, n)
  /\ LET r == NewLeaf(World, n)
     IN /\ Commit([r.w EXCEPT !.handles = @ \cup {r.id}])
        /\ last' = COp("create", r.id, n, 0, "ok")

\* c->add(m) with a shared handle m the user holds.
AddShared(c, m) ==
  /\ Budget
  /\ c \in handles /\ m \in handles
  /\ IsContainer(World, c)
  /\ c \notin Reach(World, m)
  /\ \A i \in DOMAIN heap[c].modules : heap[c].modules[i].ptr # m
  /\ Commit(Container_add(World, c, ModuleWrapper_fromShared(m)))
  /\ last' = COp("add", c, m, 0, "ok")

\* c->add(std::make_unique<Leaf>(...)), a new module with n parameters.
AddUnique(c, n) ==
  /\ Budget
  /\ c \in handles
  /\ IsContainer(World, c)
  /\ CanAlloc(World, 1, n)
  /\ LET r == NewLeaf(World, n)
     IN /\ Commit(Container_add(r.w, c, ModuleWrapper_fromUnique(r.id)))
        /\ last' = COp("add", c, r.id, 0, "ok")

\* The container adds a new Variable to its own params_.
AddOwnParam(c) ==
  /\ Budget
  /\ c \in handles
  /\ IsContainer(World, c)
  /\ CanAlloc(World, 0, 1)
  /\ LET v == nvars + 1
         w1 == [World EXCEPT !.nvars = v, !.grad[v] = TRUE]
     IN /\ Commit(Container_addOwnParam(w1, c, v))
        /\ last' = COp("addParam", c, 0, v, "ok")

\* m->setParams(v, position) on a module the user holds.
SetParams(m, v, position) ==
  /\ Budget
  /\ m \in handles
  /\ LET r == Virtual_setParams(World, m, v, position)
     IN /\ Commit(r.w)
        /\ last' = COp("setParams", m, position, v,
                       IF r.exc = "none" THEN "ok" ELSE r.exc)

\* m->train() (mode TRUE) and m->eval() (mode FALSE) on a module the user
\* holds.
Train(m, mode) ==
  /\ Budget
  /\ m \in handles
  /\ IF IsContainer(World, m)
     THEN LET r == Container_train(World, m, mode)
          IN /\ Commit(r.w)
             /\ last' = COp(IF mode THEN "train" ELSE "eval", m, 0, 0, "ok")
     ELSE /\ Commit(Module_train(World, m, mode))
          /\ last' = COp(IF mode THEN "train" ELSE "eval", m, 0, 0, "ok")

\* c->clear().
Clear(c) ==
  /\ Budget
  /\ c \in handles
  /\ IsContainer(World, c)
  /\ Commit(Container_clear(World, c))
  /\ last' = COp("clear", c, 0, 0, "ok")

\* c->module(id).  Undefined behaviour crashes, or hands back a reference
\* to whatever lies beside the vector.
Module(c, id) ==
  /\ Budget
  /\ c \in handles
  /\ IsContainer(World, c)
  /\ UNCHANGED <<heap, grad, nvars, wraps, handles>>
  /\ LET r == Container_module(World, c, id)
     IN IF r.res = "ub"
        THEN \E out \in UBOutcomes :
               last' = COp("module", c, id, 0, out)
        ELSE last' = COp("module", c, id, r.wr.ptr, "ok")

\* The calls that build a module tree.
Build ==
  \/ CreateContainer
  \/ \E n \in ChildSizes : CreateLeaf(n)
  \/ \E c, m \in ModId : AddShared(c, m)
  \/ \E c \in ModId, n \in ChildSizes : AddUnique(c, n)
  \/ \E c \in ModId : AddOwnParam(c)

\* Building, parameter replacement, child lookup and clearing.
Next ==
  \/ Build
  \/ \E m \in ModId, p \in -1..(2 * MaxVars) :
       p <= Len(heap[m].params) /\ SetParams(m, UserVar, p)
  \/ \E c \in ModId : Clear(c)
  \/ \E c \in ModId, id \in -1..MaxMods :
       id <= Len(heap[c].modules) /\ Module(c, id)

Spec == Init /\ [][Next]_vars

\* Building, clearing and mode switching.
NextT ==
  \/ Build
  \/ \E c \in ModId : Clear(c)
  \/ \E m \in ModId, mode \in BOOLEAN : Train(m, mode)

SpecT == Init /\ [][NextT]_vars

\* c->getOrphanedParamsIdxMap().  A scan that never advances keeps the
\* caller waiting for ever.
Orphans(c) ==
  /\ Budget
  /\ c \in handles
  /\ IsContainer(World, c)
  /\ UNCHANGED <<heap, grad, nvars, wraps, handles>>
  /\ LET r == Container_getOrphanedParamsIdxMap(World, c)
     IN last' = COp("orphans", c, 0, r.map, r.res)

\* The user holds two empty containers and a leaf module with one
\* parameter, and has added nothing yet.
InitO ==
  LET w0 == [heap |-> [m \in ModId |-> FreeCell],
             grad |-> [v \in Var |-> TRUE], nvars |-> 0,
             wraps |-> [s \in Slot |-> Absent], handles |-> {}]
      p == NewContainer(w0)
      q == NewContainer(p.w)
      l == NewLeaf(q.w, 1)
  IN /\ heap = l.w.heap
     /\ grad = l.w.grad
     /\ nvars = l.w.nvars
     /\ wraps = l.w.wraps
     /\ handles = {p.id, q.id, l.id}
     /\ last = NoCall(MaxCalls)

\* Registration of the modules held, parameters of a container's own,
\* clearing, and the orphan scan.
NextO ==
  \/ \E c, m \in ModId : AddShared(c, m)
  \/ \E c \in ModId : AddOwnParam(c)
  \/ \E c \in ModId : Clear(c)
  \/ \E c \in ModId : Orphans(c)

SpecO == InitO /\ [][NextO]_vars

\* c->modules(): the copy is made, handed to the caller, and destroyed
\* with the caller's temporary.
Modules(c) ==
  /\ Budget
  /\ c \in handles
  /\ IsContainer(World, c)
  /\ LET uniq == {k \in DOMAIN heap[c].modules :
                   heap[c].modules[k].tag = "unique"}
     IN CanAlloc(World, Cardinality(uniq),
                 Cardinality(UNION {{<<k, i>> :
                     i \in DOMAIN heap[heap[c].modules[k].ptr].params} :
                     k \in uniq}))
  /\ LET r == Container_modules(World, c)
     IN /\ Commit(ReleaseAll(r.w, r.copy, 1))
        /\ last' = COp("modules", c, 0, r.copy, r.res)

\* c->prettyString().
PrettyString(c) ==
  /\ Budget
  /\ c \in handles
  /\ IsContainer(World, c)
  /\ UNCHANGED <<heap, grad, nvars, wraps, handles>>
  /\ last' = COp("prettyString", c, 0, Container_prettyString(World, c), "ok")

\* c->forward(input) with a sequence of Variables; beh is what each
\* child's forward does.
Forward(c, beh, input) ==
  /\ Budget
  /\ c \in handles
  /\ IsContainer(World, c)
  /\ UNCHANGED <<heap, grad, nvars, wraps, handles>>
  /\ last' = COp("forward", c, [beh |-> beh, input |-> input],
                 Sequential_forward(World, c, beh, input), "ok")

\* c->forward(x) with the single Variable x.
ForwardOne(c, beh) ==
  /\ Budget
  /\ c \in handles
  /\ IsContainer(World, c)
  /\ UNCHANGED <<heap, grad, nvars, wraps, handles>>
  /\ LET r == Sequential_forwardOne(World, c, beh, <<-1>>)
     IN last' = COp("forwardOne", c, [beh |-> beh, input |-> <<-1>>], r,
                    IF r.exc = "none" THEN "ok" ELSE r.exc)

\* (*c)(x) with the single Variable x.
CallOp(c, beh) ==
  /\ Budget
  /\ c \in handles
  /\ IsContainer(World, c)
  /\ UNCHANGED <<heap, grad, nvars, wraps, handles>>
  /\ LET r == Sequential_call(World, c, beh, <<-1>>)
     IN last' = COp("call", c, [beh |-> beh, input |-> <<-1>>], r,
                    IF r.exc = "none" THEN "ok" ELSE r.exc)

\* The behaviours of the children of container c.
BehavioursOf(c) == [1..Len(heap[c].modules) -> Behaviours]

\* Clearing and the operations on a built container.
ClearOrUse ==
  \/ \E c \in ModId : Clear(c)
  \/ \E m \in ModId, p \in -1..(2 * MaxVars) :
       p <= Len(heap[m].params) /\ SetParams(m, UserVar, p)
  \/ \E m \in ModId, mode \in BOOLEAN : Train(m, mode)
  \/ \E c \in ModId, id \in 0..MaxMods :
       id < Len(heap[c].modules) /\ Module(c, id)
  \/ \E c \in ModId : Modules(c)
  \/ \E c \in ModId : Orphans(c)
  \/ \E c \in ModId : PrettyString(c)
  \/ \E c \in ModId : \E beh \in BehavioursOf(c), input \in Inputs :
       Forward(c, beh, input)
  \/ \E c \in ModId : \E beh \in BehavioursOf(c) : ForwardOne(c, beh)
  \/ \E c \in ModId : \E beh \in BehavioursOf(c) : CallOp(c, beh)

\* Building, clearing, and every operation that reads a container, switches
\* its mode or replaces a parameter, in runs of at most MaxCallsF calls.
InitF == NothingBuilt /\ last = NoCall(MaxCallsF)

NextF ==
  \/ Build
  \/ ClearOrUse

SpecF == InitF /\ [][NextF]_vars

\* ================================================================ claims
\* C4: copying a wrapper that holds a uniquely-owned module yields a
\* uniquely-owned wrapper on a new instance made by clone(): distinct from
\* the source's instance, held by nobody else, of equal structure.
C4_CopyPost ==
  (last.op = "copy" /\ UniqueHolding(wraps[last.src]))
    => LET c == wraps[last.slot]
           o == wraps[last.src]
       IN /\ last.res = "ok"
          /\ UniqueHolding(c)
          /\ c.ptr # o.ptr
          /\ Live(World, c.ptr) /\ Live(World, o.ptr)
          /\ OtherHolders(World, last.slot, c.ptr) = {}
          /\ Observe(World, c.ptr) = Observe(World, o.ptr)
          /\ Range(heap[c.ptr].params) \cap Range(heap[o.ptr].params) = {}

\* C4: a mutation or reset through one wrapper is not visible through
\* another when either of the two owns its module uniquely.
C4_IndepStep ==
  \A s, t \in Slot :
    (/\ s # t
     /\ last'.slot = s
     /\ last'.op \in Mutators
     /\ wraps[t].ptr # Null
     /\ UniqueHolding(wraps[s]) \/ UniqueHolding(wraps[t]))
      => /\ wraps'[t] = wraps[t]
         /\ Live(WorldNext, wraps[t].ptr)
         /\ Observe(WorldNext, wraps[t].ptr) = Observe(World, wraps[t].ptr)

C4_UniqueCopyClones == [](C4_CopyPost) /\ [][C4_IndepStep]_vars

\* C4's case: a unique wrapper switched to eval mode, then copied.
C4_Witness ==
  /\ last.op = "copy" /\ last.res = "ok"
  /\ UniqueHolding(wraps[last.src])
  /\ ~heap[wraps[last.src].ptr].train
  /\ Len(heap[wraps[last.src].ptr].params) = 1

\* C5: copying a wrapper that holds a shared module yields a wrapper whose
\* get() is the source's instance.
C5_CopyPost ==
  (last.op = "copy" /\ SharedHolding(wraps[last.src]))
    => /\ last.res = "ok"
       /\ wraps[last.slot].tag = "shared"
       /\ ModuleWrapper_get(wraps[last.slot])
            = ModuleWrapper_get(wraps[last.src])
       /\ Live(World, ModuleWrapper_get(wraps[last.slot]))

\* C5: train/eval through a shared wrapper is observed through every
\* other wrapper made from it or sharing its module.
C5_SharedStep ==
  \A s, t \in Slot :
    (/\ s # t
     /\ last'.slot = s
     /\ last'.op \in {"train", "eval"}
     /\ SharedHolding(wraps[s])
     /\ wraps[t] = wraps[s])
      => /\ wraps'[t] = wraps[t]
         /\ heap'[ModuleWrapper_get(wraps'[t])].train = (last'.op = "train")
         /\ Observe(WorldNext, ModuleWrapper_get(wraps'[t]))
              = Observe(WorldNext, ModuleWrapper_get(wraps'[s]))

C5_SharedCopyAliases == [](C5_CopyPost) /\ [][C5_SharedStep]_vars

\* C5's case: eval through one of two wrappers sharing a module.
C5_Witness ==
  /\ last.op = "eval"
  /\ \E t \in Slot \ {last.slot} :
       /\ SharedHolding(wraps[t])
       /\ wraps[t] = wraps[last.slot]
       /\ ~heap[wraps[t].ptr].train

\* C6: copying a wrapper that holds no module succeeds and yields a
\* wrapper that holds none.
C6_CopyEmptyYieldsEmpty ==
  (last.op = "copy" /\ ~ModuleWrapper_bool(wraps[last.src]))
    => /\ last.res = "ok"
       /\ wraps[last.slot] # Absent
       /\ ~ModuleWrapper_bool(wraps[last.slot])
       /\ ModuleWrapper_get(wraps[last.slot]) = Null

\* C7: reset() leaves the wrapper empty; a uniquely-owned module is
\* destroyed, a shared one exactly when no other holder is left; and every
\* wrapper and handle that holds a module holds a live one.
C7_AllHeldLive ==
  /\ \A t \in Slot :
       ModuleWrapper_get(wraps[t]) # Null
         => Live(World, ModuleWrapper_get(wraps[t]))
  /\ \A m \in handles : Live(World, m)

C7_ResetReleases ==
  /\ C7_AllHeldLive
  /\ last.op = "reset"
       => /\ ~ModuleWrapper_bool(wraps[last.slot])
          /\ ModuleWrapper_get(wraps[last.slot]) = Null
          /\ (last.was = "unique" /\ last.ret # Null)
               => ~Live(World, last.ret)
          /\ (last.was = "shared" /\ last.ret # Null)
               => (Live(World, last.ret)
                     <=> OtherHolders(World, last.slot, last.ret) # {})

\* C7's case: a shared wrapper reset while another holder remains.
C7_Witness ==
  /\ last.op = "reset" /\ last.was = "shared" /\ last.ret # Null
  /\ \E t \in Slot : wraps[t] = Wrapper("shared", last.ret)
  /\ Live(World, last.ret)

\* C8: make_shared() turns a unique wrapper into a shared one on the same
\* instance and returns that instance; it leaves a shared wrapper as it
\* is and returns its handle; it returns null from an empty wrapper; no
\* module is created or destroyed.  A copy made right after a promotion
\* aliases the module.
C8_Step ==
  /\ last'.op = "make_shared"
       => LET s == last'.slot
          IN /\ last'.ret = wraps[s].ptr
             /\ wraps'[s] = Wrapper("shared", wraps[s].ptr)
             /\ wraps[s].tag = "shared" => wraps'[s] = wraps[s]
             /\ \A t \in Slot \ {s} : wraps'[t] = wraps[t]
             /\ heap' = heap /\ grad' = grad
             /\ handles \subseteq handles'
             /\ handles' \subseteq handles \cup {last'.ret}
  /\ (/\ last.op = "make_shared" /\ last.was = "unique" /\ last.ret # Null
      /\ last'.op = "copy" /\ last'.src = last.slot)
       => /\ last'.res = "ok"
          /\ wraps'[last'.slot] = Wrapper("shared", last.ret)
          /\ heap' = heap

C8_MakeSharedPromotes == [][C8_Step]_vars

\* C8's case: a unique wrapper holding a module was promoted.
C8_Witness ==
  /\ last.op = "make_shared" /\ last.was = "unique" /\ last.ret # Null
  /\ wraps[last.slot] = Wrapper("shared", last.ret)
  /\ last.ret \in handles

\* C9: the boolean conversion is true iff get() is non-null, for every
\* wrapper the user holds and for a valueless one.
C9_BoolIffGet ==
  /\ \A s \in Slot :
       wraps[s] # Absent
         => (ModuleWrapper_bool(wraps[s])
               <=> ModuleWrapper_get(wraps[s]) # Null)
  /\ ~ModuleWrapper_bool(Wrapper("valueless", Null))
  /\ ModuleWrapper_get(Wrapper("valueless", Null)) = Null

\* C9's case: an emptied wrapper beside one that holds a module.
C9_Witness ==
  /\ last.op = "reset" /\ last.ret # Null
  /\ \E t \in Slot : ModuleWrapper_bool(wraps[t])

\* The step is a setParams call on container m at position p.
SetParamsStep(m, p) ==
  /\ IsContainer(World, m)
  /\ last'.n = last.n + 1
  /\ last'.op = "setParams" /\ last'.mod = m /\ last'.arg = p

\* C1: setParams(value, position) on a container at a valid position
\* writes the flat entry and, when the index map has an entry (child,
\* local index) for the position, that child's parameter at the local
\* index; without an entry only the flat entry changes and no other
\* module's parameter list changes.
C1_Step ==
  \A m \in ModId, p \in 0..(2 * MaxVars) :
    (SetParamsStep(m, p) /\ p < Len(heap[m].params))
      => /\ At(heap'[m].params, p) = last'.val
         /\ IF p \in DOMAIN heap[m].childParamIdx
            THEN LET e == heap[m].childParamIdx[p]
                     ch == At(heap[m].modules, e[1]).ptr
                 IN /\ e[2] < Len(heap'[ch].params)
                    /\ At(heap'[ch].params, e[2]) = last'.val
            ELSE /\ \A x \in ModId \ {m} : heap'[x] = heap[x]
                 /\ \A i \in DOMAIN heap[m].params :
                      i # p + 1 => heap'[m].params[i] = heap[m].params[i]

C1_SetParamsWritesThrough == [][C1_Step]_vars

\* C2: setParams on a container at a position outside its flat list
\* fails with an out-of-range error and leaves every module as it was.
C2_Step ==
  \A m \in ModId, p \in -1..(2 * MaxVars) :
    (SetParamsStep(m, p) /\ (p < 0 \/ p >= Len(heap[m].params)))
      => /\ last'.res = "out_of_range"
         /\ heap' = heap
         /\ grad' = grad

C2_SetParamsOutOfRangeFailsFast == [][C2_Step]_vars

\* C2's case: a failed setParams past the end of the flat list of a
\* container that has a child with parameters.
C2_Witness ==
  /\ last.op = "setParams" /\ last.res = "out_of_range"
  /\ IsContainer(World, last.mod)
  /\ last.arg >= Len(heap[last.mod].params)
  /\ heap[last.mod].childParamIdx # <<>>

\* C3: module(id) returns the child wrapper at id when id is a child
\* index, and fails with an out-of-range error for every other id.
C3_ModuleRangeChecked ==
  last.op = "module"
    => IF last.arg >= 0 /\ last.arg < Len(heap[last.mod].modules)
       THEN /\ last.res = "ok"
            /\ last.val = At(heap[last.mod].modules, last.arg).ptr
       ELSE last.res = "out_of_range"

\* The step is a train() (mode TRUE) or eval() (mode FALSE) call on
\* container m.
TrainStep(m, mode) ==
  /\ IsContainer(World, m)
  /\ last'.n = last.n + 1
  /\ last'.op = (IF mode THEN "train" ELSE "eval") /\ last'.mod = m

\* C10: eval() and train() on a container set its mode, set the gradient
\* flag of exactly the flat parameters without an index entry, and call
\* eval()/train() on every child; a flag that changes belongs to such a
\* parameter or to a module below a child.
C10_Step ==
  \A m \in ModId, mode \in BOOLEAN :
    TrainStep(m, mode)
      => LET me == heap[m]
             r == Container_train(World, m, mode)
             own == {At(me.params, i) : i \in Uncovered(World, m)}
             kids == {me.modules[k].ptr : k \in DOMAIN me.modules}
             below == UNION {Reach(World, k) : k \in kids}
             theirs == UNION {Range(heap[x].params) : x \in below}
         IN /\ heap'[m].train = mode
            /\ r.touched = Uncovered(World, m)
            /\ \A v \in own : grad'[v] = mode
            /\ r.called = [k \in DOMAIN me.modules |-> k - 1]
            /\ \A x \in below : heap'[x].train = mode
            /\ \A v \in theirs : grad'[v] = mode
            /\ \A v \in Var : grad'[v] # grad[v] => v \in own \cup theirs

C10_TrainEvalTouchOwnParams == [][C10_Step]_vars

\* C10's case: eval() on a container in train mode with a child, a
\* parameter of its own and a parameter of the child.
C10_Witness ==
  /\ last.op = "eval" /\ IsContainer(World, last.mod)
  /\ heap[last.mod].modules # <<>>
  /\ heap[last.mod].childParamIdx # <<>>
  /\ Uncovered(World, last.mod) # {}
  /\ \A i \in Uncovered(World, last.mod) :
       ~grad[At(heap[last.mod].params, i)]
  /\ \E v \in Var : grad[v]

\* The greatest element of a non-empty set of integers.
MaxOf(S) == CHOOSE x \in S : \A y \in S : y <= x

\* C13: a scan that returns keys each orphaned position by the child index
\* of the nearest child block before it, and by -1 when no child block
\* precedes it; a parameter that follows the blocks of two children, the
\* most recently added one among them, is reported under the index of the
\* most recently added child.
C13_OrphanKeyedByPrecedingChild ==
  (last.op = "orphans" /\ last.res = "ok")
    => LET me == heap[last.mod]
           idx == me.childParamIdx
           newest == Len(me.modules) - 1
       IN /\ \A e \in last.val :
               LET before == {j \in DOMAIN idx : j < e[2]}
               IN e[1] = IF before = {} THEN -1 ELSE idx[MaxOf(before)][1]
          /\ \A i \in Uncovered(World, last.mod) :
               (/\ \E j \in DOMAIN idx : j < i /\ idx[j][1] = newest
                /\ \E j \in DOMAIN idx : j < i /\ idx[j][1] # newest)
                 => <<newest, i>> \in last.val

\* C14: the positions a scan reports are exactly the flat positions
\* without an index entry.
C14_OrphansAreTheUncovered ==
  (last.op = "orphans" /\ last.res = "ok")
    => {e[2] : e \in last.val} = Uncovered(World, last.mod)

\* C20: getOrphanedParamsIdxMap terminates in every reachable container
\* state.
C20_OrphanScanTerminates ==
  last.op = "orphans" => last.res # "hang"

\* C11: a module's mode changes only in a train() or eval() call; the
\* call on a container succeeds and leaves the container and every module
\* below it, at any depth, in the mode called for.
C11_Step ==
  /\ \A m \in ModId, mode \in BOOLEAN :
       TrainStep(m, mode)
         => /\ last'.res = "ok"
            /\ \A x \in Reach(World, m) : heap'[x].train = mode
  /\ last'.op \notin {"train", "eval"}
       => \A x \in ModId :
            (Live(World, x) /\ Live(WorldNext, x))
              => heap'[x].train = heap[x].train

C11_ModePropagates == [][C11_Step]_vars

\* C11's case: eval() on a container that holds a container that holds a
\* leaf module; all three are in eval mode.
C11_Witness ==
  /\ last.op = "eval" /\ IsContainer(World, last.mod)
  /\ ~heap[last.mod].train
  /\ \E k \in DOMAIN heap[last.mod].modules :
       LET q == heap[last.mod].modules[k].ptr
       IN /\ IsContainer(World, q) /\ ~heap[q].train
          /\ \E j \in DOMAIN heap[q].modules :
               LET x == heap[q].modules[j].ptr
               IN heap[x].kind = "leaf" /\ ~heap[x].train

RECURSIVE Stage(_, _, _)

\* The output of the first k children of a pipeline: the input for k = 0,
\* else what child k - 1 yields on the output of the children before it.
Stage(beh, input, k) ==
  IF k = 0 THEN input
  ELSE Module_forward(k - 1, beh[k], Stage(beh, input, k - 1))

\* C15: forward(sequence) calls every child's forward once, in insertion
\* order, each on the output of the child before it, and returns the
\* output of the last child (the input when there are no children).
C15_ForwardChains ==
  last.op = "forward"
    => LET n == Len(heap[last.mod].modules)
       IN /\ last.res = "ok"
          /\ last.val.calls = [k \in 1..n |-> k - 1]
          /\ last.val.out = Stage(last.arg.beh, last.arg.input, n)
          /\ n = 0 => last.val.out = last.arg.input

\* C15's case: a pipeline of two children or more whose first child turns
\* one Variable into two.
C15_Witness ==
  /\ last.op = "forward"
  /\ Len(heap[last.mod].modules) >= 2
  /\ Len(last.arg.input) = 1
  /\ last.arg.beh[1] = "two" /\ last.arg.beh[2] = "map"
  /\ Len(last.val.out) = 2

\* C16: forward(single Variable) and the call operator return the one
\* final output of the pipeline run on the one-element sequence, and fail
\* with an invalid-argument error, returning nothing, when the final output
\* has no or several values.
C16_SingleForwardNeedsOneOutput ==
  last.op \in {"forwardOne", "call"}
    => LET n == Len(heap[last.mod].modules)
           final == Stage(last.arg.beh, <<last.arg.input>>, n)
       IN /\ last.val.calls = [k \in 1..n |-> k - 1]
          /\ IF Len(final) = 1
             THEN last.res = "ok" /\ last.val.val = final
             ELSE last.res = "invalid_argument" /\ last.val.val = <<>>

\* C16's case: the call operator on a pipeline whose last child yields
\* two values fails.
C16_Witness ==
  /\ last.op = "call" /\ last.res = "invalid_argument"
  /\ Len(heap[last.mod].modules) >= 2
  /\ Len(Stage(last.arg.beh, <<last.arg.input>>,
               Len(heap[last.mod].modules))) = 2

\* The operations that are to leave the structure of a container alone.
FrameOps ==
  {"train", "eval", "setParams", "module", "modules", "orphans",
   "prettyString", "forward", "forwardOne", "call"}

\* The flat positions of container x whose value the step changes.
Changed(x) ==
  {i \in 0..(Len(heap[x].params) - 1) :
     At(heap'[x].params, i) # At(heap[x].params, i)}

\* C18: train, eval, setParams, module, modules, getOrphanedParamsIdxMap,
\* prettyString and the forward overloads leave every container's flat
\* length, children and index map as they were; setParams changes the
\* value of no flat position but the addressed one.
C18_Step ==
  (last'.n = last.n + 1 /\ last'.op \in FrameOps)
    => \A x \in ModId :
         IsContainer(World, x)
           => /\ IsContainer(WorldNext, x)
              /\ Len(heap'[x].params) = Len(heap[x].params)
              /\ heap'[x].modules = heap[x].modules
              /\ heap'[x].childParamIdx = heap[x].childParamIdx
              /\ Cardinality(Changed(x)) <= 1
              /\ last'.op # "setParams" => Changed(x) = {}
              /\ x = last'.mod => Changed(x) \subseteq {last'.arg}

C18_FlatOrderingStable == [][C18_Step]_vars

\* C18's case: setParams at a position of a child block that follows a
\* parameter of the container's own.
C18_Witness ==
  /\ last.op = "setParams" /\ last.res = "ok"
  /\ IsContainer(World, last.mod)
  /\ last.arg \in DOMAIN heap[last.mod].childParamIdx
  /\ heap[last.mod].childParamIdx[last.arg][2] # last.arg
  /\ At(heap[last.mod].params, last.arg) = UserVar
  /\ At(heap[last.mod].params, 0) # UserVar

\* The index map of container c attributes flat positions to children in
\* contiguous blocks, one per child, in registration order.
BlocksInOrder(c) ==
  LET me == heap[c]
      idx == me.childParamIdx
  IN /\ DOMAIN idx \subseteq 0..(Len(me.params) - 1)
     /\ \A i \in DOMAIN idx :
          /\ idx[i][1] >= 0 /\ idx[i][1] < Len(me.modules)
          /\ idx[i][2] >= 0
          /\ idx[i][2] > 0
               => (i - 1) \in DOMAIN idx
                    /\ idx[i - 1] = <<idx[i][1], idx[i][2] - 1>>
     /\ \A i, j \in DOMAIN idx :
          i < j => /\ idx[i][1] <= idx[j][1]
                   /\ idx[i][1] = idx[j][1]
                        => idx[j][2] = idx[i][2] + (j - i)

\* C12: each child addition appends the child's parameters, as many as it
\* has when added, as one block at the end of the flat list and maps each
\* of the new positions to (child index, local index); blocks stay
\* contiguous and in registration order.
C12_Step ==
  \A c \in ModId :
    (IsContainer(World, c) /\ last'.n = last.n + 1
       /\ last'.op = "add" /\ last'.mod = c)
      => LET m == last'.arg
             base == Len(heap[c].params)
             n == Len(heap'[m].params)
         IN /\ Len(heap'[c].params) = base + n
            /\ Len(heap'[c].modules) = Len(heap[c].modules) + 1
            /\ heap'[c].modules[Len(heap'[c].modules)].ptr = m
            /\ DOMAIN heap'[c].childParamIdx =
                 DOMAIN heap[c].childParamIdx \cup (base..(base + n - 1))
            /\ \A i \in 0..(base - 1) :
                 /\ At(heap'[c].params, i) = At(heap[c].params, i)
                 /\ i \in DOMAIN heap[c].childParamIdx
                      => heap'[c].childParamIdx[i] = heap[c].childParamIdx[i]
            /\ \A l \in 0..(n - 1) :
                 /\ heap'[c].childParamIdx[base + l] = <<Len(heap[c].modules), l>>
                 /\ At(heap'[c].params, base + l) = At(heap'[m].params, l)

C12_ChildBlocks ==
  /\ [](\A c \in ModId : IsContainer(World, c) => BlocksInOrder(c))
  /\ [][C12_Step]_vars

\* C12's case: a container with two children that contributed parameters,
\* the second of them two.
C12_Witness ==
  /\ last.op = "add" /\ IsContainer(World, last.mod)
  /\ Len(heap[last.mod].modules) = 2
  /\ \E i \in DOMAIN heap[last.mod].childParamIdx :
       heap[last.mod].childParamIdx[i] = <<0, 0>>
  /\ \E i \in DOMAIN heap[last.mod].childParamIdx :
       heap[last.mod].childParamIdx[i] = <<1, 1>>

\* C17: clear() leaves the index map, the children and the flat list
\* empty, and a second clear() changes nothing.
C17_ClearEmptiesIdempotent ==
  /\ last.op = "clear"
       => /\ heap[last.mod].childParamIdx = <<>>
          /\ heap[last.mod].modules = <<>>
          /\ heap[last.mod].params = <<>>
  /\ \A c \in ModId :
       IsContainer(World, c)
         => LET once == Container_clear(World, c)
            IN /\ once.heap[c].childParamIdx = <<>>
               /\ once.heap[c].modules = <<>>
               /\ once.heap[c].params = <<>>
               /\ Container_clear(once, c) = once

\* C17's case: clear() on a container with a parameter of its own and a
\* uniquely-owned child, which is destroyed.
C17_Witness ==
  /\ last.op = "clear"
  /\ \E m \in ModId : heap[m].kind = "dead"
  /\ nvars >= 2

\* Each covered flat entry of every container equals the child's parameter
\* at the mapped local index.
FlatInSync(w) ==
  \A c \in ModId :
    IsContainer(w, c)
      => \A i \in DOMAIN w.heap[c].childParamIdx :
           LET e == w.heap[c].childParamIdx[i]
               ch == w.heap[At(w.heap[c].modules, e[1]).ptr]
           IN /\ e[2] < Len(ch.params)
              /\ At(w.heap[c].params, i) = At(ch.params, e[2])

\* C19: a setParams call on a container keeps every container's covered
\* flat entries equal to the children's parameters they map to.
C19_Step ==
  (FlatInSync(World) /\ last'.n = last.n + 1 /\ last'.op = "setParams"
     /\ IsContainer(World, last'.mod))
    => FlatInSync(WorldNext)

C19_FlatStaysInSync == [][C19_Step]_vars

====
